---------------------------- MODULE Spec2Model ----------------------------
(***************************************************************************)
(* NoteQuarry Qt front-end: the window (MainWindow), the password gate     *)
(* (PasswordDialog), the entry-creation dialog (ModeSelectionDialog), the  *)
(* two editors and the C bridge (qt_bridge.cpp), as a state machine.       *)
(*                                                                         *)
(* A QString is a sequence of one-character strings.  Every handler is one *)
(* action: Qt runs a slot to completion on the single UI thread.  Three    *)
(* step-local variables record what the last handler emitted:              *)
(*   childEmitted  signals of the child widgets (dialogs, editors)         *)
(*   emitted       signals of MainWindow (the outward boundary)            *)
(*   delivered     backend callbacks invoked by the bridge's lambdas       *)
(***************************************************************************)
EXTENDS Integers, Sequences, FiniteSets

\* ------------------------------------------------------------ bounds
MaxPwLen == 2
MaxTitleLen == 2
MaxSearchLen == 1
MaxContentLen == 1
MaxRegistrations == 2
MaxEntries == 2
MaxPages == 3
MaxBookLen == 3
MaxNoteLen == 3
MaxWords == 3

\* ------------------------------------------------------------ strings
PwAlphabet == {" ", "a"}
TitleAlphabet == {" ", "a", "|"}
TextAlphabet == {" ", "a"}

Strings(alphabet, n) == UNION {[1..k -> alphabet] : k \in 0..n}

Str_BOOK == <<"B", "O", "O", "K">>
Str_NOTE == <<"N", "O", "T", "E">>
Str_PasswordEmpty == <<"Password cannot be empty">>

\* QChar::isSpace for the characters of the alphabets
IsSpace(c) == c = " "

RECURSIVE TrimLeft(_)
TrimLeft(s) == IF s # <<>> /\ IsSpace(Head(s)) THEN TrimLeft(Tail(s)) ELSE s

RECURSIVE TrimRight(_)
TrimRight(s) ==
    IF s # <<>> /\ IsSpace(s[Len(s)]) THEN TrimRight(SubSeq(s, 1, Len(s) - 1)) ELSE s

\* QString::trimmed(): whitespace removed from the start and the end
NoTrim(s) == s
Trimmed(s) == TrimRight(TrimLeft(s))

\* QString::split(sep) with the default Qt::KeepEmptyParts
RECURSIVE SplitFrom(_, _, _)
SplitFrom(s, sep, cur) ==
    IF s = <<>> THEN <<cur>>
    ELSE IF Head(s) = sep THEN <<cur>> \o SplitFrom(Tail(s), sep, <<>>)
    ELSE SplitFrom(Tail(s), sep, Append(cur, Head(s)))

Split(s, sep) == SplitFrom(s, sep, <<>>)

\* ------------------------------------------------------------ state
VARIABLES
    phase,          \* "gate": inside qt_init, in the constructor's m_passwordDialog->exec()
                    \* "init_done": qt_init has returned the handle
                    \* "running": inside qt_exec; "exited": the event loop has ended
    gateVisible,    \* the PasswordDialog is shown
    pwText,         \* m_passwordInput->text()
    errText,        \* m_errorLabel->text()
    errVisible,     \* m_errorWidget->isVisible()
    searchText,     \* m_searchBox->text()
    entryList,      \* MainWindow::m_entryList
    rows,           \* the items of m_entryListWidget, top to bottom
    currentRow,     \* m_entryListWidget->currentRow(), 0-based, -1 for none
    dlgConns,       \* connections ModeSelectionDialog::modeSelected -> onModeDialogAccepted
    dlgOpen,        \* the ModeSelectionDialog is in exec()
    dlgResult,      \* QDialog::result() of the ModeSelectionDialog (1 = Accepted)
    titleText,      \* m_titleInput->text()
    dlgEverAccepted,\* history: an opening of the ModeSelectionDialog was accepted
    activeView,     \* m_stackedWidget->currentWidget()
    bookContent,    \* BookEditor::m_contentEditor->toPlainText()
    noteContent,    \* NoteEditor::m_contentEditor->toPlainText()
    wordCount,      \* MainWindow::m_wordCount
    bookWordCount,  \* BookEditor::m_wordCount
    mwPage,         \* MainWindow::m_currentPage
    mwTotal,        \* MainWindow::m_totalPages
    bookPage,       \* BookEditor::m_currentPage
    bookTotal,      \* BookEditor::m_totalPages
    spinValue,      \* m_pageSpinBox->value()
    spinMax,        \* m_pageSpinBox->maximum()
    prevEnabled,    \* m_prevButton->isEnabled()
    nextEnabled,    \* m_nextButton->isEnabled()
    slots,          \* MainWindowHandle callback storage and the lambdas connected
    childEmitted,
    emitted,
    delivered,
    lastOp,         \* the handler that ran last
    lastArg,        \* the arguments it was given, where a property needs them
    bridgeRet,      \* for a bridge call: whether its handle was null, and the int it returned
    everSubmitted   \* history: a passwordSubmitted has been emitted

vars == <<phase, gateVisible, pwText, errText, errVisible, searchText, entryList, rows,
          currentRow, dlgConns, dlgOpen, dlgResult, titleText, dlgEverAccepted, activeView,
          bookContent, noteContent, wordCount, bookWordCount, mwPage, mwTotal, bookPage,
          bookTotal, spinValue, spinMax, prevEnabled, nextEnabled, slots, childEmitted,
          emitted, delivered, lastOp, lastArg, bridgeRet, everSubmitted>>

gateVars == <<gateVisible, pwText, errText, errVisible>>
dlgVars == <<dlgConns, dlgOpen, dlgResult, titleText, dlgEverAccepted>>
editorVars == <<bookContent, noteContent, wordCount, bookWordCount>>
listVars == <<entryList, rows, currentRow>>
pageVars == <<mwPage, mwTotal, bookPage, bookTotal, spinValue, spinMax, prevEnabled,
              nextEnabled>>

Events == {"password_submitted", "new_entry_clicked", "mode_selected", "entry_selected",
           "delete_entry", "save_content", "back_to_list", "search_entries",
           "page_changed", "add_new_page"}
Callbacks == {"null", "cb1", "cb2"}
UserData == {"ud1", "ud2"}

Sig(name, args) == [sig |-> name, args |-> args]
Call(event, cb, args, ud) == [event |-> event, cb |-> cb, args |-> args, ud |-> ud]

\* MainWindowHandle after qt_init: every callback and user-data pointer is nullptr
\* and no lambda is connected
NullSlot == [cb |-> "null", ud |-> "null", conns |-> 0]

\* ------------------------------------------------------------ bridge
\* The bridge event a MainWindow signal is connected to by qt_register_*
EventOf(sig) ==
    CASE sig = "passwordSubmitted" -> "password_submitted"
      [] sig = "newEntryClicked" -> "new_entry_clicked"
      [] sig = "modeSelected" -> "mode_selected"
      [] sig = "entrySelected" -> "entry_selected"
      [] sig = "deleteEntryClicked" -> "delete_entry"
      [] sig = "saveContent" -> "save_content"
      [] sig = "backToList" -> "back_to_list"
      [] sig = "searchEntries" -> "search_entries"
      [] sig = "pageChanged" -> "page_changed"
      [] sig = "addNewPage" -> "add_new_page"
      [] OTHER -> "none"

\* The arguments one connected lambda passes to the callback, as a sequence of
\* zero or one argument tuples.  The mode_selected lambda parses "MODE|TITLE".
LambdaArgs(s) ==
    IF s.sig = "modeSelected"
    THEN LET parts == Split(s.args[1], "|")
         IN  IF Len(parts) >= 2 THEN <<(<<parts[1], parts[2]>>)>> ELSE <<>>
    ELSE <<s.args>>

\* What the lambdas connected to one MainWindow signal call: each connection
\* reads the handle's current callback and user data, and skips a null callback
LambdaCallsUnchecked(s) ==
    LET ev == EventOf(s.sig)
    IN  IF ev \notin DOMAIN slots \/ LambdaArgs(s) = <<>>
        THEN <<>>
        ELSE [i \in 1..slots[ev].conns |->
                 Call(ev, slots[ev].cb, LambdaArgs(s)[1], slots[ev].ud)]
LambdaCalls(s) ==
    LET ev == EventOf(s.sig)
    IN  IF ev \notin DOMAIN slots \/ slots[ev].cb = "null" \/ LambdaArgs(s) = <<>>
        THEN <<>>
        ELSE [i \in 1..slots[ev].conns |->
                 Call(ev, slots[ev].cb, LambdaArgs(s)[1], slots[ev].ud)]

RECURSIVE BridgeCalls(_)
BridgeCalls(sigs) ==
    IF sigs = <<>> THEN <<>> ELSE LambdaCalls(Head(sigs)) \o BridgeCalls(Tail(sigs))

\* The record of one handler: its name, what the children and the window emitted,
\* and what reached the backend
OutputsRet(op, arg, ret, child, out) ==
    /\ lastOp' = op
    /\ lastArg' = arg
    /\ bridgeRet' = ret
    /\ childEmitted' = child
    /\ emitted' = out
    /\ delivered' = BridgeCalls(out)
    /\ everSubmitted' =
           (everSubmitted \/ \E i \in 1..Len(out) : out[i].sig = "passwordSubmitted")

\* A handler or a call on a valid handle, returning nothing
NoRet == [nullHandle |-> FALSE, value |-> 0]

OutputsArg(op, arg, child, out) == OutputsRet(op, arg, NoRet, child, out)

Outputs(op, child, out) == OutputsArg(op, <<>>, child, out)

\* ------------------------------------------------------------ initial state
\* The page field is a QSpinBox created with the toolkit's default maximum; the
\* book view lowers only its minimum, to 1
SpinBoxDefaultMaximum == 99

\* What the constructors leave in the views: MainWindow and BookEditor start at
\* page 1 of 1 with 0 words, setupUI shows the list view, the list widget is
\* empty until setEntryList runs
DefaultsWithPageZero ==
    /\ entryList = <<>>
    /\ rows = <<>>
    /\ currentRow = -1
    /\ activeView = "List"
    /\ wordCount = 0
    /\ bookWordCount = 0
    /\ mwPage = 1
    /\ mwTotal = 1
    /\ bookPage = 0
    /\ bookTotal = 1
    /\ spinValue = 1
    /\ spinMax = SpinBoxDefaultMaximum
    /\ prevEnabled = FALSE
    /\ nextEnabled = FALSE
WindowDefaults ==
    /\ entryList = <<>>
    /\ rows = <<>>
    /\ currentRow = -1
    /\ activeView = "List"
    /\ wordCount = 0
    /\ bookWordCount = 0
    /\ mwPage = 1
    /\ mwTotal = 1
    /\ bookPage = 1
    /\ bookTotal = 1
    /\ spinValue = 1
    /\ spinMax = SpinBoxDefaultMaximum
    /\ prevEnabled = FALSE
    /\ nextEnabled = FALSE

\* MainWindow::MainWindow has run setupUI and blocks in m_passwordDialog->exec(),
\* called from qt_init before the handle exists
Init ==
    /\ phase = "gate"
    /\ gateVisible = TRUE
    /\ pwText = <<>>
    /\ errText = <<>>
    /\ errVisible = FALSE
    /\ searchText = <<>>
    /\ WindowDefaults
    /\ dlgConns = 0
    /\ dlgOpen = FALSE
    /\ dlgResult = 0
    /\ titleText = <<>>
    /\ dlgEverAccepted = FALSE
    /\ bookContent = <<>>
    /\ noteContent = <<>>
    /\ slots = [e \in Events |-> NullSlot]
    /\ childEmitted = <<>>
    /\ emitted = <<>>
    /\ delivered = <<>>
    /\ lastOp = "init"
    /\ lastArg = <<>>
    /\ bridgeRet = NoRet
    /\ everSubmitted = FALSE

\* ------------------------------------------------------------ password gate
\* The gate takes input while an event loop runs: its own exec() or qt_exec's
GateActive == gateVisible /\ phase \in {"gate", "running"}

\* The exec() of the constructor returns when the dialog finishes; the constructor
\* and qt_init then run to their end (window->show(), return handle)
AfterGateCloses == IF phase = "gate" THEN "init_done" ELSE phase

\* The user edits the password field (no slot is connected to its textChanged)
TypeClearsError(p) ==
    /\ GateActive
    /\ p # pwText
    /\ pwText' = p
    /\ errVisible' = FALSE
    /\ UNCHANGED <<phase, gateVisible, errText, searchText, dlgVars,
                   activeView, editorVars, slots, listVars, pageVars>>
    /\ Outputs("typePassword", <<>>, <<>>)
TypePassword(p) ==
    /\ GateActive
    /\ p # pwText
    /\ pwText' = p
    /\ UNCHANGED <<phase, gateVisible, errText, errVisible, searchText, dlgVars,
                   activeView, editorVars, slots, listVars, pageVars>>
    /\ Outputs("typePassword", <<>>, <<>>)

\* PasswordDialog::setErrorMessage / setShowError
SetErrorMessage(message) == errText' = message
SetShowError(show) == errVisible' = show

\* The password accept() emits
AcceptPayloadRaw(text) == text
AcceptPayload(text) == Trimmed(text)

\* PasswordDialog::accept, from returnPressed of the field or a click on Unlock
PasswordDialog_accept(via) ==
    /\ GateActive
    /\ LET password == AcceptPayload(pwText)
       IN  IF password = <<>>
           THEN /\ SetErrorMessage(Str_PasswordEmpty)
                /\ SetShowError(TRUE)
                /\ UNCHANGED <<phase, gateVisible>>
                /\ Outputs(via, <<>>, <<>>)
           ELSE /\ gateVisible' = FALSE
                /\ phase' = AfterGateCloses
                /\ UNCHANGED <<errText, errVisible>>
                   \* the dialog's signal is connected to MainWindow's signal
                /\ Outputs(via, <<Sig("passwordSubmitted", <<password>>)>>,
                           <<Sig("passwordSubmitted", <<password>>)>>)
    /\ UNCHANGED <<pwText, searchText, dlgVars, activeView, editorVars, slots, listVars, pageVars>>

\* PasswordDialog::keyPressEvent with Key_Escape: reject() closes the dialog
PasswordDialog_escape ==
    /\ GateActive
    /\ gateVisible' = FALSE
    /\ phase' = AfterGateCloses
    /\ UNCHANGED <<pwText, errText, errVisible, searchText, dlgVars, activeView,
                   editorVars, slots, listVars, pageVars>>
    /\ Outputs("gateEscape", <<>>, <<>>)

\* QApplication::quit(): ends the main event loop when qt_exec runs it; called
\* before the main loop has started it does not make the later exec() return
QuitPhase == IF phase = "running" THEN "exited" ELSE AfterGateCloses

\* The Exit button: the lambda calling QApplication::quit(), then QDialog::reject
PasswordDialog_exitButton ==
    /\ GateActive
    /\ gateVisible' = FALSE
    /\ phase' = QuitPhase
    /\ UNCHANGED <<pwText, errText, errVisible, searchText, dlgVars, activeView,
                   editorVars, slots, listVars, pageVars>>
    /\ Outputs("gateExit", <<>>, <<>>)

\* The close button: QApplication::quit() alone, the dialog is not rejected.
\* Before the main loop runs, quit() either returns at once (Qt 6) or stops the
\* dialog's nested loop (Qt 5), which lets the constructor go on with the dialog
\* still shown.
PasswordDialog_closeButton ==
    /\ GateActive
    /\ \/ phase' = QuitPhase
       \/ phase = "gate" /\ phase' = phase
    /\ UNCHANGED <<gateVisible, pwText, errText, errVisible, searchText, dlgVars,
                   activeView, editorVars, slots, listVars, pageVars>>
    /\ Outputs("gateClose", <<>>, <<>>)

GateSubmits == {"returnPressed", "unlockClicked"}

\* ------------------------------------------------------------ bridge calls
\* qt_init has returned: the backend holds a handle
HandleValid == phase \in {"init_done", "running"}

\* qt_register_*: stores the callback and its user data in the handle and
\* connects one more lambda to the window's signal
Register(ev, cb, ud) ==
    /\ HandleValid
    /\ slots[ev].conns < MaxRegistrations
    /\ slots' = [slots EXCEPT ![ev] = [cb |-> cb, ud |-> ud, conns |-> @.conns + 1]]
    /\ UNCHANGED <<phase, gateVars, searchText, dlgVars, activeView, editorVars, listVars, pageVars>>
    /\ Outputs("register", <<>>, <<>>)

qt_register_password_submitted(cb, ud) == Register("password_submitted", cb, ud)

\* qt_exec: runs the application's event loop
qt_exec ==
    /\ phase = "init_done"
    /\ phase' = "running"
    /\ UNCHANGED <<gateVars, searchText, dlgVars, activeView, editorVars, slots, listVars, pageVars>>
    /\ Outputs("qt_exec", <<>>, <<>>)

\* Error texts the backend pushes
ErrorTexts == {<<>>, <<"Wrong password">>}

\* qt_set_password_error -> MainWindow::setPasswordError ->
\* PasswordDialog::setErrorMessage, on the dialog whether shown or closed
qt_set_password_error(error) ==
    /\ HandleValid
    /\ SetErrorMessage(error)
    /\ UNCHANGED <<phase, gateVisible, pwText, errVisible, searchText, dlgVars,
                   activeView, editorVars, slots, listVars, pageVars>>
    /\ OutputsArg("qt_set_password_error", error, <<>>, <<>>)

\* qt_show_password_error -> MainWindow::setShowPasswordError(show != 0) ->
\* PasswordDialog::setShowError
ShowErrorReopensGate(show) ==
    /\ HandleValid
    /\ SetShowError(show # 0)
    /\ gateVisible' = (gateVisible \/ show # 0)
    /\ UNCHANGED <<phase, pwText, errText, searchText, dlgVars,
                   activeView, editorVars, slots, listVars, pageVars>>
    /\ OutputsArg("qt_show_password_error", <<show>>, <<>>, <<>>)
qt_show_password_error(show) ==
    /\ HandleValid
    /\ SetShowError(show # 0)
    /\ UNCHANGED <<phase, gateVisible, pwText, errText, searchText, dlgVars,
                   activeView, editorVars, slots, listVars, pageVars>>
    /\ OutputsArg("qt_show_password_error", <<show>>, <<>>, <<>>)

\* ------------------------------------------------------------ null handle
\* The functions of qt_bridge.h that take a handle
BridgeSetters == {"qt_set_entry_list", "qt_set_current_entry_title",
                  "qt_set_current_content", "qt_set_current_page", "qt_set_total_pages",
                  "qt_set_word_count", "qt_set_password_error", "qt_show_password_error",
                  "qt_show_book_editor", "qt_show_note_editor", "qt_show_list_view"}
BridgeRegistrations == {"qt_register_password_submitted", "qt_register_new_entry_clicked",
                        "qt_register_mode_selected", "qt_register_entry_selected",
                        "qt_register_delete_entry", "qt_register_save_content",
                        "qt_register_back_to_list", "qt_register_search_entries",
                        "qt_register_page_changed", "qt_register_add_new_page"}
BridgeFunctions == BridgeSetters \cup BridgeRegistrations \cup {"qt_exec", "qt_cleanup"}

\* What a call with a null handle returns: qt_exec -1, the others nothing
NullRet(fn) == [nullHandle |-> TRUE, value |-> IF fn = "qt_exec" THEN -1 ELSE 0]

\* The backend, holding control after qt_init, calls fn with handle = nullptr:
\* every function tests the handle first and returns (the qt_show_* are empty)
NullCallClearsList(fn) ==
    /\ phase # "gate"
    /\ fn \in BridgeFunctions
    /\ IF fn = "qt_set_entry_list"
       THEN entryList' = <<>> /\ rows' = <<>> /\ currentRow' = -1
       ELSE UNCHANGED listVars
    /\ UNCHANGED <<phase, gateVars, searchText, dlgVars, activeView, editorVars, slots,
                   pageVars>>
    /\ OutputsRet(fn, <<>>, NullRet(fn), <<>>, <<>>)
NullHandleCall(fn) ==
    /\ phase # "gate"
    /\ fn \in BridgeFunctions
    /\ UNCHANGED <<phase, gateVars, searchText, dlgVars, activeView, editorVars, slots,
                   listVars, pageVars>>
    /\ OutputsRet(fn, <<>>, NullRet(fn), <<>>, <<>>)

\* ------------------------------------------------------------ list view
\* The main window takes input while qt_exec runs and no modal dialog is open
WindowActive == phase = "running" /\ ~gateVisible /\ ~dlgOpen

\* The user changes the search box: textChanged -> MainWindow::onSearchTextChanged
SearchEmitsTrimmed(text) ==
    /\ WindowActive
    /\ activeView = "List"
    /\ text # searchText
    /\ searchText' = text
    /\ UNCHANGED <<phase, gateVars, dlgVars, activeView, editorVars, slots, listVars, pageVars>>
    /\ Outputs("onSearchTextChanged", <<>>, <<Sig("searchEntries", <<Trimmed(text)>>)>>)
MainWindow_onSearchTextChanged(text) ==
    /\ WindowActive
    /\ activeView = "List"
    /\ text # searchText
    /\ searchText' = text
    /\ UNCHANGED <<phase, gateVars, dlgVars, activeView, editorVars, slots, listVars, pageVars>>
    /\ Outputs("onSearchTextChanged", <<>>, <<Sig("searchEntries", <<text>>)>>)

\* ------------------------------------------------------------ mode selector
\* QDialog::exec() clears the dialog's result before it shows the dialog
ExecResultStale(r) == r
ExecResult(r) == 0

\* MainWindow::onNewEntry, from a click on "+ New Entry": the dialog is created
\* and connected on the first call only, then run modally
MainWindow_onNewEntry ==
    /\ WindowActive
    /\ activeView = "List"
    /\ dlgConns' = IF dlgConns = 0 THEN 1 ELSE dlgConns
    /\ dlgResult' = ExecResult(dlgResult)
    /\ dlgOpen' = TRUE
    /\ UNCHANGED <<phase, gateVars, searchText, titleText, dlgEverAccepted, activeView,
                   editorVars, slots, listVars, pageVars>>
    /\ Outputs("onNewEntry", <<>>, <<>>)

\* The dialog takes input while its exec() runs
DialogActive == phase = "running" /\ dlgOpen

\* The user edits the title field
TypeTitle(t) ==
    /\ DialogActive
    /\ t # titleText
    /\ titleText' = t
    /\ UNCHANGED <<phase, gateVars, searchText, dlgConns, dlgOpen, dlgResult,
                   dlgEverAccepted, activeView, editorVars, slots, listVars, pageVars>>
    /\ Outputs("typeTitle", <<>>, <<>>)

\* ModeSelectionDialog::validateAndAccept: accept() is reached unless the trimmed
\* title is empty (then a warning box is shown and the dialog stays as it is)
Validates(text) == Trimmed(text) # <<>>

\* MainWindow::onModeDialogAccepted: the signal the window emits for one dialog signal
MainWindow_onModeDialogAccepted(mode, title) ==
    Sig("modeSelected", <<mode \o <<"|">> \o title, <<>>>>)

\* ModeSelectionDialog::onBookModeClicked / onNoteModeClicked: validateAndAccept(),
\* then the signal if result() is Accepted; every connection made by onNewEntry
\* runs onModeDialogAccepted
ModeClicked(op, mode) ==
    /\ DialogActive
    /\ LET accepted == Validates(titleText)
           result == IF accepted THEN 1 ELSE dlgResult
           child == IF result = 1 THEN <<Sig("modeSelected", <<mode, titleText>>)>>
                    ELSE <<>>
           out == IF result = 1
                  THEN [i \in 1..dlgConns |-> MainWindow_onModeDialogAccepted(mode, titleText)]
                  ELSE <<>>
       IN  /\ dlgResult' = result
           /\ dlgOpen' = ~accepted
           /\ dlgEverAccepted' = (dlgEverAccepted \/ accepted)
           /\ Outputs(op, child, out)
    /\ UNCHANGED <<phase, gateVars, searchText, dlgConns, titleText, activeView,
                   editorVars, slots, listVars, pageVars>>

ModeSelectionDialog_onBookModeClicked == ModeClicked("onBookModeClicked", Str_BOOK)
NoteClickedAsBook == ModeClicked("onNoteModeClicked", Str_BOOK)
ModeSelectionDialog_onNoteModeClicked == ModeClicked("onNoteModeClicked", Str_NOTE)

\* ModeSelectionDialog::keyPressEvent with Key_Escape: reject()
ModeSelectionDialog_escape ==
    /\ DialogActive
    /\ dlgOpen' = FALSE
    /\ dlgResult' = 0
    /\ UNCHANGED <<phase, gateVars, searchText, dlgConns, titleText, dlgEverAccepted,
                   activeView, editorVars, slots, listVars, pageVars>>
    /\ Outputs("dlgEscape", <<>>, <<>>)

\* The Cancel button: its lambda shows an information box and nothing else
ModeSelectionDialog_cancelButton ==
    /\ DialogActive
    /\ UNCHANGED <<phase, gateVars, searchText, dlgVars, activeView, editorVars, slots, listVars, pageVars>>
    /\ Outputs("dlgCancel", <<>>, <<>>)

qt_register_mode_selected(cb, ud) == Register("mode_selected", cb, ud)

\* ------------------------------------------------------------ views
\* qt_show_book_editor / qt_show_note_editor / qt_show_list_view: empty bodies
BridgeShow(op) ==
    /\ HandleValid
    /\ UNCHANGED <<phase, gateVars, searchText, dlgVars, activeView, editorVars, slots, listVars, pageVars>>
    /\ Outputs(op, <<>>, <<>>)

qt_show_book_editor == BridgeShow("qt_show_book_editor")
qt_show_note_editor == BridgeShow("qt_show_note_editor")
qt_show_list_view == BridgeShow("qt_show_list_view")

\* MainWindow::showListView / showBookEditor / showNoteEditor, the public methods,
\* called on the window itself: m_stackedWidget->setCurrentWidget
WindowShow(op, view) ==
    /\ HandleValid
    /\ activeView' = view
    /\ UNCHANGED <<phase, gateVars, searchText, dlgVars, editorVars, slots, listVars, pageVars>>
    /\ Outputs(op, <<>>, <<>>)

MainWindow_showListView == WindowShow("showListView", "List")
MainWindow_showBookEditor == WindowShow("showBookEditor", "Book")
MainWindow_showNoteEditor == WindowShow("showNoteEditor", "Note")

\* ------------------------------------------------------------ editors
\* text.split(QRegularExpression("\\s+"), Qt::SkipEmptyParts): the parts between
\* runs of whitespace, empty parts dropped
RECURSIVE TokensFrom(_, _)
TokensFrom(s, cur) ==
    IF s = <<>> THEN (IF cur = <<>> THEN <<>> ELSE <<cur>>)
    ELSE IF IsSpace(Head(s))
         THEN (IF cur = <<>> THEN <<>> ELSE <<cur>>) \o TokensFrom(Tail(s), <<>>)
         ELSE TokensFrom(Tail(s), Append(cur, Head(s)))

WordsKeepEmpty(text) == Len(Split(text, " "))
WordsOf(text) == Len(TokensFrom(text, <<>>))

\* The user edits the book text: QTextEdit::textChanged -> BookEditor::onContentChanged
\* -> contentChanged -> the window's lambda, which recounts the words
BookEditor_userEdit(t) ==
    /\ WindowActive
    /\ activeView = "Book"
    /\ t # bookContent
    /\ bookContent' = t
    /\ wordCount' = WordsOf(t)
    /\ bookWordCount' = WordsOf(t)
    /\ UNCHANGED <<phase, gateVars, searchText, dlgVars, activeView, noteContent, slots, listVars, pageVars>>
    /\ Outputs("bookEdit", <<Sig("contentChanged", <<t>>)>>, <<>>)

\* The user edits the note text: NoteEditor::onContentChanged emits contentChanged,
\* to which the window connects nothing
NoteEditor_userEdit(t) ==
    /\ WindowActive
    /\ activeView = "Note"
    /\ t # noteContent
    /\ noteContent' = t
    /\ UNCHANGED <<phase, gateVars, searchText, dlgVars, activeView, bookContent,
                   wordCount, bookWordCount, slots, listVars, pageVars>>
    /\ Outputs("noteEdit", <<Sig("contentChanged", <<t>>)>>, <<>>)

\* MainWindow::onBackToList, from backClicked of the editor shown:
\* showListView(), then the signal
BackWithoutSwitch(op) ==
    /\ WindowActive
    /\ UNCHANGED <<phase, gateVars, searchText, dlgVars, activeView, editorVars, slots, listVars, pageVars>>
    /\ Outputs(op, <<Sig("backClicked", <<>>)>>, <<Sig("backToList", <<>>)>>)
MainWindow_onBackToList(op) ==
    /\ WindowActive
    /\ activeView' = "List"
    /\ UNCHANGED <<phase, gateVars, searchText, dlgVars, editorVars, slots, listVars, pageVars>>
    /\ Outputs(op, <<Sig("backClicked", <<>>)>>, <<Sig("backToList", <<>>)>>)

BookEditor_backClicked == activeView = "Book" /\ MainWindow_onBackToList("bookBackClicked")
NoteEditor_backClicked == activeView = "Note" /\ MainWindow_onBackToList("noteBackClicked")

qt_register_back_to_list(cb, ud) == Register("back_to_list", cb, ud)

\* ------------------------------------------------------------ save
\* The Save button of an editor: its lambda emits saveClicked(toPlainText()), which
\* setupUI connects to the window's saveContent signal; no slot runs
SaveClicked(op, text) ==
    /\ WindowActive
    /\ UNCHANGED <<phase, gateVars, searchText, dlgVars, activeView, editorVars, slots,
                   listVars, pageVars>>
    /\ Outputs(op, <<Sig("saveClicked", <<text>>)>>, <<Sig("saveContent", <<text>>)>>)

BookEditor_saveClicked == activeView = "Book" /\ SaveClicked("bookSaveClicked", bookContent)
NoteSaveSendsBookText == activeView = "Note" /\ SaveClicked("noteSaveClicked", bookContent)
NoteEditor_saveClicked == activeView = "Note" /\ SaveClicked("noteSaveClicked", noteContent)

qt_register_save_content(cb, ud) == Register("save_content", cb, ud)

\* ------------------------------------------------------------ content
\* Text the backend can hand over: beside a space and a letter, a no-break space
\* (U+00A0), written "nbsp"
BackendAlphabet == {" ", "a", "nbsp"}

\* What toPlainText() gives back for text put in with setPlainText():
\* QTextDocument::toPlainText turns every no-break space into a space
PlainText(text) == [i \in 1..Len(text) |-> IF text[i] = "nbsp" THEN " " ELSE text[i]]

\* qt_set_current_content -> MainWindow::setCurrentContent -> setContent of both
\* editors.  BookEditor::setContent blocks the signals of the text edit around
\* setPlainText and then calls onContentChanged() itself, which emits
\* contentChanged(toPlainText()) into the window's word-count lambda;
\* NoteEditor::setContent only blocks
qt_set_current_content(content) ==
    /\ HandleValid
    /\ bookContent' = PlainText(content)
    /\ noteContent' = PlainText(content)
    /\ wordCount' = WordsOf(PlainText(content))
    /\ bookWordCount' = WordsOf(PlainText(content))
    /\ UNCHANGED <<phase, gateVars, searchText, dlgVars, activeView, slots, listVars,
                   pageVars>>
    /\ OutputsArg("qt_set_current_content", content,
                  <<Sig("contentChanged", <<PlainText(content)>>)>>, <<>>)

\* qt_set_word_count -> MainWindow::setWordCount: the window's count, then
\* BookEditor::setWordCount
SetWordCountWindowOnly(count) ==
    /\ HandleValid
    /\ wordCount' = count
    /\ UNCHANGED <<phase, gateVars, searchText, dlgVars, activeView, bookContent,
                   noteContent, bookWordCount, slots, listVars, pageVars>>
    /\ OutputsArg("qt_set_word_count", <<count>>, <<>>, <<>>)
qt_set_word_count(count) ==
    /\ HandleValid
    /\ wordCount' = count
    /\ bookWordCount' = count
    /\ UNCHANGED <<phase, gateVars, searchText, dlgVars, activeView, bookContent,
                   noteContent, slots, listVars, pageVars>>
    /\ OutputsArg("qt_set_word_count", <<count>>, <<>>, <<>>)

\* MainWindow::getCurrentContent
MainWindow_getCurrentContent ==
    IF activeView = "Book" THEN bookContent
    ELSE IF activeView = "Note" THEN noteContent
    ELSE <<>>

\* ------------------------------------------------------------ note tools
\* The text NoteEditor::onAddCheckboxClicked inserts: the ballot box U+2610,
\* written "box", and a space
Str_Checkbox == <<"box", " ">>

\* QTextCursor::insertText for a cursor with the given anchor and position
\* (offsets into the text): the selection between them, if any, is replaced
InsertText(text, anchor, position, inserted) ==
    LET lo == IF anchor < position THEN anchor ELSE position
        hi == IF anchor < position THEN position ELSE anchor
    IN  SubSeq(text, 1, lo) \o inserted \o SubSeq(text, hi + 1, Len(text))

\* A click on Add Checkbox: NoteEditor::onAddCheckboxClicked inserts at the text
\* cursor, which runs textChanged -> onContentChanged, and emits addCheckbox,
\* which setupUI connects to the window's addCheckbox signal
NoteEditor_onAddCheckboxClicked(anchor, position) ==
    LET text == InsertText(noteContent, anchor, position, Str_Checkbox)
    IN  /\ WindowActive
        /\ activeView = "Note"
        /\ anchor \in 0..Len(noteContent)
        /\ position \in 0..Len(noteContent)
        /\ Len(text) <= MaxNoteLen
        /\ noteContent' = text
        /\ UNCHANGED <<phase, gateVars, searchText, dlgVars, activeView, bookContent,
                       wordCount, bookWordCount, slots, listVars, pageVars>>
        /\ OutputsArg("onAddCheckboxClicked", <<anchor, position>>,
                      <<Sig("contentChanged", <<text>>), Sig("addCheckbox", <<>>)>>,
                      <<Sig("addCheckbox", <<>>)>>)

\* A click on Insert Image: the button's clicked is connected to the editor's
\* insertImage signal, and that to the window's insertImage signal
InsertImageClicked(op) ==
    /\ WindowActive
    /\ UNCHANGED <<phase, gateVars, searchText, dlgVars, activeView, editorVars, slots,
                   listVars, pageVars>>
    /\ Outputs(op, <<Sig("insertImage", <<>>)>>, <<Sig("insertImage", <<>>)>>)

BookEditor_insertImage == activeView = "Book" /\ InsertImageClicked("bookInsertImage")
NoteEditor_insertImage == activeView = "Note" /\ InsertImageClicked("noteInsertImage")

\* ------------------------------------------------------------ pages
\* QSpinBox keeps its value inside [minimum, maximum]; the minimum is 1
SpinClamp(v, max) == IF v > max THEN max ELSE IF v < 1 THEN 1 ELSE v

\* BookEditor::updateNavigationButtons, for the page and the total it reads
BookEditor_updateNavigationButtons(page, total) ==
    /\ prevEnabled' = (page > 1)
    /\ nextEnabled' = (page < total)

\* The book view's page state as one value
BookView ==
    [page |-> bookPage, total |-> bookTotal, value |-> spinValue, max |-> spinMax,
     prev |-> prevEnabled, next |-> nextEnabled]

\* BookEditor::setCurrentPage on a book view b: the page, the spin box with its
\* signals blocked (the value stays inside the spin box's range), the buttons
BookEditor_setCurrentPage(b, page) ==
    [b EXCEPT !.page = page, !.value = SpinClamp(page, b.max),
              !.prev = (page > 1), !.next = (page < b.total)]

\* BookEditor::setTotalPages on a book view b.  setMaximum runs with the signals
\* of the spin box open: a value above the new maximum is lowered to it and
\* valueChanged runs onPageSpinBoxChanged, which moves the page
TotalMovesPage(b, total) ==
    SpinClamp(b.value, total) # b.value /\ SpinClamp(b.value, total) # b.page
BookEditor_setTotalPages(b, total) ==
    LET page == IF TotalMovesPage(b, total) THEN SpinClamp(b.value, total) ELSE b.page
    IN  [page |-> page, total |-> total, value |-> SpinClamp(b.value, total),
         max |-> total, prev |-> (page > 1), next |-> (page < total)]

\* qt_set_current_page -> MainWindow::setCurrentPage -> BookEditor::setCurrentPage
qt_set_current_page(page) ==
    LET b == BookEditor_setCurrentPage(BookView, page)
    IN  /\ HandleValid
        /\ mwPage' = page
        /\ bookPage' = b.page
        /\ spinValue' = b.value
        /\ BookEditor_updateNavigationButtons(b.page, b.total)
        /\ UNCHANGED <<phase, gateVars, searchText, dlgVars, activeView, editorVars,
                       slots, listVars, mwTotal, bookTotal, spinMax>>
        /\ OutputsArg("qt_set_current_page", <<page>>, <<>>, <<>>)

\* qt_set_total_pages -> MainWindow::setTotalPages -> BookEditor::setTotalPages
qt_set_total_pages(total) ==
    LET b == BookEditor_setTotalPages(BookView, total)
    IN  /\ HandleValid
        /\ mwTotal' = total
        /\ bookTotal' = b.total
        /\ spinMax' = b.max
        /\ spinValue' = b.value
        /\ bookPage' = b.page
        /\ BookEditor_updateNavigationButtons(b.page, b.total)
        /\ UNCHANGED <<phase, gateVars, searchText, dlgVars, activeView, editorVars,
                       slots, listVars, mwPage>>
        /\ OutputsArg("qt_set_total_pages", <<total>>,
                      IF TotalMovesPage(BookView, total)
                      THEN <<Sig("pageChanged", <<b.page>>)>> ELSE <<>>, <<>>)

\* The user enters a page in the page field: valueChanged ->
\* BookEditor::onPageSpinBoxChanged, which sets the editor's page and emits the
\* editor's pageChanged; setupUI of the window connects nothing to that signal
BookEditor_onPageSpinBoxChanged(value) ==
    /\ WindowActive
    /\ activeView = "Book"
    /\ value \in 1..spinMax
    /\ value # spinValue
    /\ spinValue' = value
    /\ bookPage' = value
    /\ UNCHANGED <<phase, gateVars, searchText, dlgVars, activeView, editorVars, slots,
                   listVars, mwPage, mwTotal, bookTotal, spinMax, prevEnabled,
                   nextEnabled>>
    /\ OutputsArg("onPageSpinBoxChanged", <<value>>,
                  IF value # bookPage THEN <<Sig("pageChanged", <<value>>)>> ELSE <<>>,
                  <<>>)

\* A click on an enabled navigation button: the editor's signal runs the window's
\* slot, which reads the window's own page and total
NavClicked(op, childSig, out) ==
    /\ WindowActive
    /\ activeView = "Book"
    /\ UNCHANGED <<phase, gateVars, searchText, dlgVars, activeView, editorVars, slots,
                   listVars, pageVars>>
    /\ Outputs(op, <<Sig(childSig, <<>>)>>, out)

\* MainWindow::onPreviousPage
MainWindow_onPreviousPage ==
    /\ prevEnabled
    /\ NavClicked("onPreviousPage", "previousPage",
                  IF mwPage > 1 THEN <<Sig("pageChanged", <<mwPage - 1>>)>> ELSE <<>>)

\* MainWindow::onNextPage
MainWindow_onNextPage ==
    /\ nextEnabled
    /\ NavClicked("onNextPage", "nextPage",
                  IF mwPage < mwTotal THEN <<Sig("pageChanged", <<mwPage + 1>>)>>
                  ELSE <<>>)

qt_register_page_changed(cb, ud) == Register("page_changed", cb, ud)

\* A click on New Page, which is always enabled: BookEditor::addPage ->
\* MainWindow::onAddPage, which only emits
AddPageAllocatesLocally ==
    /\ WindowActive
    /\ activeView = "Book"
    /\ mwTotal < MaxPages
    /\ mwTotal' = mwTotal + 1
    /\ bookTotal' = bookTotal + 1
    /\ UNCHANGED <<phase, gateVars, searchText, dlgVars, activeView, editorVars, slots,
                   listVars, mwPage, bookPage, spinValue, spinMax, prevEnabled,
                   nextEnabled>>
    /\ Outputs("onAddPage", <<Sig("addPage", <<>>)>>, <<Sig("addNewPage", <<>>)>>)
AddPageFromAnyView ==
    /\ WindowActive
    /\ UNCHANGED <<phase, gateVars, searchText, dlgVars, activeView, editorVars, slots,
                   listVars, pageVars>>
    /\ Outputs("onAddPage", <<Sig("addPage", <<>>)>>, <<Sig("addNewPage", <<>>)>>)
MainWindow_onAddPage ==
    /\ WindowActive
    /\ activeView = "Book"
    /\ UNCHANGED <<phase, gateVars, searchText, dlgVars, activeView, editorVars, slots,
                   listVars, pageVars>>
    /\ Outputs("onAddPage", <<Sig("addPage", <<>>)>>, <<Sig("addNewPage", <<>>)>>)

qt_register_add_new_page(cb, ud) == Register("add_new_page", cb, ud)

\* ------------------------------------------------------------ entry list
EntryNames == {"e1", "e2"}

\* The rows MainWindow::setEntryList builds: one selectable item per entry, or for
\* an empty list a single item with Qt::NoItemFlags that carries the
\* "No entries yet" widget
EntryRow(entry) == [text |-> entry, flags |-> "default"]
PlaceholderRow == [text |-> "", flags |-> "NoItemFlags"]

RowsKeptAndAppended(entries) == rows \o [i \in 1..Len(entries) |-> EntryRow(entries[i])]
RowsOf(entries) ==
    IF entries = <<>> THEN <<PlaceholderRow>>
    ELSE [i \in 1..Len(entries) |-> EntryRow(entries[i])]

\* qt_set_entry_list -> MainWindow::setEntryList; QListWidget::clear() leaves no
\* current row
qt_set_entry_list(entries) ==
    /\ HandleValid
    /\ entryList' = entries
    /\ rows' = RowsOf(entries)
    /\ currentRow' = -1
    /\ UNCHANGED <<phase, gateVars, searchText, dlgVars, activeView, editorVars, slots,
                   pageVars>>
    /\ OutputsArg("qt_set_entry_list", entries, <<>>, <<>>)

\* What MainWindow::onEntryItemClicked emits for the row of the item
EntryClickSignals(index) ==
    IF index >= 0 THEN <<Sig("entrySelected", <<index>>)>> ELSE <<>>

\* A click on the row with 0-based index: itemClicked -> onEntryItemClicked.  The
\* second press of a double click runs the same slot again through
\* itemDoubleClicked.  A click makes an enabled row the current one; for the
\* placeholder, which is not enabled, the view may or may not report the click
MainWindow_onEntryItemClicked(index) ==
    /\ WindowActive
    /\ activeView = "List"
    /\ index \in 0..(Len(rows) - 1)
    /\ IF rows[index + 1].flags = "default"
       THEN /\ currentRow' = index
            /\ OutputsArg("onEntryItemClicked", <<index>>, <<>>, EntryClickSignals(index))
       ELSE /\ currentRow' = currentRow
            /\ \E reported \in BOOLEAN :
                   OutputsArg("placeholderClicked", <<index>>, <<>>,
                              IF reported THEN EntryClickSignals(index) ELSE <<>>)
    /\ UNCHANGED <<phase, gateVars, searchText, dlgVars, activeView, editorVars, slots,
                   entryList, rows, pageVars>>

qt_register_entry_selected(cb, ud) == Register("entry_selected", cb, ud)

\* What MainWindow::onDeleteEntry emits for the current row and the answer to its
\* QMessageBox::question; without a current row it does not ask
DeleteUnconfirmed(index, reply) ==
    IF index >= 0 THEN <<Sig("deleteEntryClicked", <<index>>)>> ELSE <<>>
DeleteSignals(index, reply) ==
    IF index >= 0 /\ reply = "Yes" THEN <<Sig("deleteEntryClicked", <<index>>)>> ELSE <<>>

\* "Delete Entry" in the context menu, which opens over an item of the list: the
\* press that asks for the menu makes an enabled row the current one, the slot
\* reads currentRow() and asks for confirmation
MainWindow_onDeleteEntry(index, reply) ==
    LET current == IF rows[index + 1].flags = "default" THEN index ELSE currentRow
    IN  /\ WindowActive
        /\ activeView = "List"
        /\ index \in 0..(Len(rows) - 1)
        /\ currentRow' = current
        /\ UNCHANGED <<phase, gateVars, searchText, dlgVars, activeView, editorVars,
                       slots, entryList, rows, pageVars>>
        /\ OutputsArg("onDeleteEntry", <<reply>>, <<>>, DeleteSignals(current, reply))

qt_register_delete_entry(cb, ud) == Register("delete_entry", cb, ud)

\* ------------------------------------------------------------ specification
\* The lifecycle qt_init (with the startup gate), registration, qt_exec
Next ==
    \/ \E p \in Strings(PwAlphabet, MaxPwLen) : TypePassword(p)
    \/ \E via \in GateSubmits : PasswordDialog_accept(via)
    \/ PasswordDialog_escape
    \/ PasswordDialog_exitButton
    \/ PasswordDialog_closeButton
    \/ \E cb \in Callbacks, ud \in UserData : qt_register_password_submitted(cb, ud)
    \/ qt_exec
    \/ \E t \in Strings(TextAlphabet, MaxSearchLen) : MainWindow_onSearchTextChanged(t)

Spec == Init /\ [][Next]_vars

\* The state qt_init, a submission of "a" at the gate and qt_exec lead to: the
\* list view is shown and takes input, nothing is registered yet
InitShell ==
    /\ phase = "running"
    /\ gateVisible = FALSE
    /\ pwText = <<"a">>
    /\ errText = <<>>
    /\ errVisible = FALSE
    /\ searchText = <<>>
    /\ entryList = <<>>
    /\ rows = <<>>
    /\ currentRow = -1
    /\ dlgConns = 0
    /\ dlgOpen = FALSE
    /\ dlgResult = 0
    /\ titleText = <<>>
    /\ dlgEverAccepted = FALSE
    /\ activeView = "List"
    /\ bookContent = <<>>
    /\ noteContent = <<>>
    /\ wordCount = 0
    /\ bookWordCount = 0
    /\ mwPage = 1
    /\ mwTotal = 1
    /\ bookPage = 1
    /\ bookTotal = 1
    /\ spinValue = 1
    /\ spinMax = SpinBoxDefaultMaximum
    /\ prevEnabled = FALSE
    /\ nextEnabled = FALSE
    /\ slots = [e \in Events |-> NullSlot]
    /\ childEmitted = <<>>
    /\ emitted = <<>>
    /\ delivered = <<>>
    /\ lastOp = "qt_exec"
    /\ lastArg = <<>>
    /\ bridgeRet = NoRet
    /\ everSubmitted = TRUE

\* Entry creation: the list view, the mode selector and the mode_selected callback
NextMode ==
    \/ MainWindow_onNewEntry
    \/ \E t \in Strings(TitleAlphabet, MaxTitleLen) : TypeTitle(t)
    \/ ModeSelectionDialog_onBookModeClicked
    \/ ModeSelectionDialog_onNoteModeClicked
    \/ ModeSelectionDialog_escape
    \/ ModeSelectionDialog_cancelButton
    \/ \E cb \in Callbacks, ud \in UserData : qt_register_mode_selected(cb, ud)

SpecMode == InitShell /\ [][NextMode]_vars

\* Navigation among the list view and the two editors
NextNav ==
    \/ qt_show_book_editor
    \/ qt_show_note_editor
    \/ qt_show_list_view
    \/ MainWindow_showListView
    \/ MainWindow_showBookEditor
    \/ MainWindow_showNoteEditor
    \/ \E t \in Strings(TextAlphabet, MaxContentLen) : BookEditor_userEdit(t)
    \/ \E t \in Strings(TextAlphabet, MaxContentLen) : NoteEditor_userEdit(t)
    \/ BookEditor_backClicked
    \/ NoteEditor_backClicked
    \/ \E cb \in Callbacks, ud \in UserData : qt_register_back_to_list(cb, ud)

SpecNav == InitShell /\ [][NextNav]_vars

\* The entry list: its contents, clicks, deletion and the search box
NextList ==
    \/ \E es \in Strings(EntryNames, MaxEntries) : qt_set_entry_list(es)
    \/ \E i \in 0..(MaxEntries - 1) : MainWindow_onEntryItemClicked(i)
    \/ \E i \in 0..(MaxEntries - 1), reply \in {"Yes", "No"} :
           MainWindow_onDeleteEntry(i, reply)
    \/ \E t \in Strings(TextAlphabet, MaxSearchLen) : MainWindow_onSearchTextChanged(t)
    \/ \E cb \in Callbacks, ud \in UserData : qt_register_entry_selected(cb, ud)

SpecList == InitShell /\ [][NextList]_vars

\* The pages of the book view
NextBook ==
    \/ MainWindow_showBookEditor
    \/ MainWindow_showListView
    \/ \E page \in 1..MaxPages : qt_set_current_page(page)
    \/ \E total \in 1..MaxPages : qt_set_total_pages(total)
    \/ \E value \in 1..MaxPages : BookEditor_onPageSpinBoxChanged(value)
    \/ MainWindow_onPreviousPage
    \/ MainWindow_onNextPage
    \/ MainWindow_onAddPage
    \/ \E cb \in Callbacks, ud \in UserData : qt_register_page_changed(cb, ud)

SpecBook == InitShell /\ [][NextBook]_vars

\* The text of the editors: edits, programmatic sets and Save
NextEdit ==
    \/ MainWindow_showListView
    \/ MainWindow_showBookEditor
    \/ MainWindow_showNoteEditor
    \/ \E t \in Strings(BackendAlphabet, MaxContentLen) : qt_set_current_content(t)
    \/ \E t \in Strings(TextAlphabet, MaxBookLen) : BookEditor_userEdit(t)
    \/ \E t \in Strings(TextAlphabet, MaxContentLen) : NoteEditor_userEdit(t)
    \/ \E page \in 1..MaxPages : qt_set_current_page(page)
    \/ BookEditor_saveClicked
    \/ NoteEditor_saveClicked
    \/ \E anchor, position \in 0..MaxNoteLen :
           NoteEditor_onAddCheckboxClicked(anchor, position)
    \/ BookEditor_insertImage
    \/ NoteEditor_insertImage

SpecEdit == InitShell /\ [][NextEdit]_vars

\* The writers of the word count, with the note edits that are not among them
NextWords ==
    \/ MainWindow_showBookEditor
    \/ MainWindow_showNoteEditor
    \/ \E t \in Strings(BackendAlphabet, MaxContentLen) : qt_set_current_content(t)
    \/ \E t \in Strings(TextAlphabet, MaxBookLen) : BookEditor_userEdit(t)
    \/ \E t \in Strings(TextAlphabet, MaxContentLen) : NoteEditor_userEdit(t)
    \/ \E count \in 0..MaxWords : qt_set_word_count(count)

SpecWords == InitShell /\ [][NextWords]_vars

\* Every user action of the three views and of the mode selector, with the calls
\* that switch the view.  The window is switched from the thread that runs its
\* event loop, so a switch comes between two handlers and, while the mode
\* selector's exec() is running, not at all
NextScope ==
    \/ ~dlgOpen /\ MainWindow_showListView
    \/ ~dlgOpen /\ MainWindow_showBookEditor
    \/ ~dlgOpen /\ MainWindow_showNoteEditor
    \/ \E es \in Strings({"e1"}, 1) : qt_set_entry_list(es)
    \/ MainWindow_onEntryItemClicked(0)
    \/ \E reply \in {"Yes", "No"} : MainWindow_onDeleteEntry(0, reply)
    \/ \E t \in Strings({"a"}, MaxSearchLen) : MainWindow_onSearchTextChanged(t)
    \/ MainWindow_onNewEntry
    \/ TypeTitle(<<"a">>)
    \/ ModeSelectionDialog_onBookModeClicked
    \/ ModeSelectionDialog_onNoteModeClicked
    \/ ModeSelectionDialog_escape
    \/ \E total \in 1..2 : qt_set_total_pages(total)
    \/ qt_set_current_page(2)
    \/ MainWindow_onPreviousPage
    \/ MainWindow_onNextPage
    \/ MainWindow_onAddPage
    \/ qt_set_current_content(<<"a">>)
    \/ BookEditor_saveClicked
    \/ NoteEditor_saveClicked
    \/ BookEditor_insertImage
    \/ NoteEditor_insertImage
    \/ NoteEditor_onAddCheckboxClicked(0, 0)
    \/ BookEditor_backClicked
    \/ NoteEditor_backClicked

SpecScope == InitShell /\ [][NextScope]_vars

\* Calls of the bridge with a null handle, among calls with the handle qt_init
\* returned
NextBridge ==
    \/ TypePassword(<<"a">>)
    \/ \E via \in GateSubmits : PasswordDialog_accept(via)
    \/ qt_exec
    \/ \E es \in Strings(EntryNames, MaxEntries) : qt_set_entry_list(es)
    \/ \E cb \in Callbacks, ud \in UserData : qt_register_back_to_list(cb, ud)
    \/ \E fn \in BridgeFunctions : NullHandleCall(fn)

SpecBridge == Init /\ [][NextBridge]_vars

\* The error line of the gate: submissions, typing and the backend's setters
NextGateError ==
    \/ \E p \in Strings(PwAlphabet, MaxPwLen) : TypePassword(p)
    \/ \E via \in GateSubmits : PasswordDialog_accept(via)
    \/ PasswordDialog_closeButton
    \/ qt_exec
    \/ \E error \in ErrorTexts : qt_set_password_error(error)
    \/ \E show \in 0..2 : qt_show_password_error(show)

SpecGateError == Init /\ [][NextGateError]_vars

\* ------------------------------------------------------------ properties
\* Whitespace-stripping stated on positions: the text between the first and the
\* last character that is not a space
NonSpaceAt(s) == {i \in 1..Len(s) : s[i] # " "}
Stripped(s) ==
    IF NonSpaceAt(s) = {} THEN <<>>
    ELSE SubSeq(s, CHOOSE i \in NonSpaceAt(s) : \A j \in NonSpaceAt(s) : i <= j,
                   CHOOSE i \in NonSpaceAt(s) : \A j \in NonSpaceAt(s) : j <= i)

\* The last handler was a submission at the gate of a password that is not blank
ValidSubmission == lastOp \in GateSubmits /\ Stripped(pwText) # <<>>

\* C1 as stated: a submission of a non-blank password p (Enter or Unlock) emits
\* exactly one password_submitted whose payload is p as typed, and closes the gate.
C1_PayloadIsTypedText ==
    ValidSubmission =>
        /\ emitted = <<Sig("passwordSubmitted", <<pwText>>)>>
        /\ ~gateVisible

\* C1 amended: a submission of a non-blank password p emits exactly one
\* password_submitted, from the dialog and from the window, whose payload is p
\* with its leading and trailing whitespace removed, and closes the gate.
C1_PayloadIsTrimmedText ==
    ValidSubmission =>
        /\ childEmitted = <<Sig("passwordSubmitted", <<Stripped(pwText)>>)>>
        /\ emitted = <<Sig("passwordSubmitted", <<Stripped(pwText)>>)>>
        /\ ~gateVisible
        /\ phase # "gate"

C1_Witness ==
    /\ ValidSubmission
    /\ pwText = <<" ", "a">>
    /\ emitted = <<Sig("passwordSubmitted", <<(<<"a">>)>>)>>
    /\ ~gateVisible

C3_GateSubmissionDelivered ==
    (lastOp \in GateSubmits /\ emitted # <<>>) =>
        /\ Len(delivered) = 1
        /\ delivered[1].event = "password_submitted"
        /\ delivered[1].args = emitted[1].args

\* C4 as stated: the list view takes input, and any signal other than
\* passwordSubmitted is emitted, only after a passwordSubmitted was emitted; and
\* dismissing the gate with Escape or Exit ends the session.
C4_NoSkipLogin ==
    /\ lastOp \in {"gateEscape", "gateExit"} => phase = "exited"
    /\ WindowActive => everSubmitted
    /\ (\E i \in 1..Len(emitted) : emitted[i].sig # "passwordSubmitted") => everSubmitted

ModeClicks == {"onBookModeClicked", "onNoteModeClicked"}
ModeOfClick(op) == IF op = "onBookModeClicked" THEN Str_BOOK ELSE Str_NOTE

\* C5: choosing a mode with a title whose trimmed form is not empty emits exactly
\* one mode_selected(mode, title) from the dialog, with the mode of the button
\* chosen and the title as typed, relayed once by the window, and closes the dialog.
C5_ModeChosenEmitsOnce ==
    (lastOp \in ModeClicks /\ Stripped(titleText) # <<>>) =>
        /\ childEmitted = <<Sig("modeSelected", <<ModeOfClick(lastOp), titleText>>)>>
        /\ Len(emitted) = 1
        /\ emitted[1].sig = "modeSelected"
        /\ ~dlgOpen

C5_Witness ==
    /\ lastOp = "onNoteModeClicked"
    /\ titleText = <<" ", "a">>
    /\ childEmitted = <<Sig("modeSelected", <<Str_NOTE, titleText>>)>>
    /\ ~dlgOpen

\* C6: choosing a mode while the title is empty or whitespace-only emits no
\* mode_selected and keeps the dialog open, also when an earlier opening of the
\* dialog was accepted.
C6_BlankTitleRefused ==
    (lastOp \in ModeClicks /\ Stripped(titleText) = <<>>) =>
        /\ childEmitted = <<>>
        /\ emitted = <<>>
        /\ delivered = <<>>
        /\ dlgOpen
        /\ DialogActive

C6_Witness ==
    /\ lastOp \in ModeClicks
    /\ dlgEverAccepted
    /\ titleText = <<" ">>
    /\ dlgOpen
    /\ emitted = <<>>

\* C7 as stated: the (mode, title) pair every mode_selected callback receives is
\* the pair the dialog emitted, for every accepted title.
C7_ModeTitleRoundTrip ==
    (lastOp \in ModeClicks /\ childEmitted # <<>> /\ slots["mode_selected"].cb # "null") =>
        /\ delivered # <<>>
        /\ \A i \in 1..Len(delivered) : delivered[i].args = childEmitted[1].args

\* C8 as stated: after qt_show_book_editor, qt_show_note_editor, qt_show_list_view
\* with a valid handle the active view is Book, Note, List respectively.
C8_BridgeShowSwitchesView ==
    /\ lastOp = "qt_show_book_editor" => activeView = "Book"
    /\ lastOp = "qt_show_note_editor" => activeView = "Note"
    /\ lastOp = "qt_show_list_view" => activeView = "List"

\* C9 as stated: completing the mode selector from the list view with BOOK
\* (resp. NOTE) and a valid title leaves the active view Book (resp. Note).
C9_ModeChosenSwitchesView ==
    (lastOp \in ModeClicks /\ childEmitted # <<>>) =>
        activeView = (IF lastOp = "onBookModeClicked" THEN "Book" ELSE "Note")

BackClicks == {"bookBackClicked", "noteBackClicked"}

\* C10: a step that is the Back action starts in the Book or Note view, ends in
\* the List view, emits exactly one back_to_list and nothing else (no
\* save_content), and leaves the content of both editors unchanged.
C10_BackLeadsToList ==
    [][lastOp' \in BackClicks =>
          /\ activeView \in {"Book", "Note"}
          /\ activeView' = "List"
          /\ emitted' = <<Sig("backToList", <<>>)>>
          /\ bookContent' = bookContent
          /\ noteContent' = noteContent]_vars

C10_Witness ==
    /\ lastOp = "bookBackClicked"
    /\ activeView = "List"
    /\ bookContent = <<"a">>
    /\ emitted = <<Sig("backToList", <<>>)>>

\* C11: a click on Save in the book or the note view emits exactly one
\* saveContent carrying the text that editor shows, and changes neither the view
\* shown, nor the text or the word count, nor any page field.
SaveClicks == {"bookSaveClicked", "noteSaveClicked"}
C11_SaveEmitsEditorText ==
    [][lastOp' \in SaveClicks =>
          /\ activeView = (IF lastOp' = "bookSaveClicked" THEN "Book" ELSE "Note")
          /\ emitted' = <<Sig("saveContent",
                              <<IF activeView = "Book" THEN bookContent ELSE noteContent>>)>>
          /\ UNCHANGED <<activeView, editorVars, pageVars>>]_vars
C11_Witness ==
    /\ lastOp = "noteSaveClicked"
    /\ noteContent = <<"a">>
    /\ bookContent # noteContent
    /\ mwPage = 2
    /\ emitted = <<Sig("saveContent", <<noteContent>>)>>

\* C12: after set_entry_list with an empty sequence the list shows its empty
\* state, one row that is no entry; after set_entry_list with a non-empty
\* sequence it shows exactly one row per element, in the same order and nothing
\* else; a click on the row of an entry emits exactly one entrySelected with the
\* 0-based index of that row.
C12_EntryListShownAndClicked ==
    /\ lastOp = "qt_set_entry_list" =>
           /\ entryList = lastArg
           /\ lastArg = <<>> => Len(rows) = 1 /\ rows[1].flags = "NoItemFlags"
           /\ lastArg # <<>> =>
                  /\ Len(rows) = Len(lastArg)
                  /\ \A i \in 1..Len(lastArg) :
                         rows[i].text = lastArg[i] /\ rows[i].flags = "default"
    /\ lastOp = "onEntryItemClicked" =>
           /\ lastArg[1] \in 0..(Len(entryList) - 1)
           /\ emitted = <<Sig("entrySelected", <<lastArg[1]>>)>>
C12_Witness ==
    /\ lastOp = "onEntryItemClicked"
    /\ entryList = <<"e1", "e2">>
    /\ Len(rows) = 2
    /\ emitted = <<Sig("entrySelected", <<1>>)>>

\* C13: in every reachable state of the book view, whatever sequence of
\* set_current_page, set_total_pages and entries in the page field led to it,
\* Previous is enabled exactly when the book view's current page is above 1 and
\* Next exactly when it is below the total.
C13_NavButtonsFollowPage ==
    /\ prevEnabled <=> bookPage > 1
    /\ nextEnabled <=> bookPage < bookTotal

\* C14: with k the page the book view shows, a click on an actionable Previous
\* emits exactly one pageChanged(k - 1) and a click on an actionable Next exactly
\* one pageChanged(k + 1).
C14_NavClickEmitsNeighbourPage ==
    /\ lastOp = "onPreviousPage" => emitted = <<Sig("pageChanged", <<bookPage - 1>>)>>
    /\ lastOp = "onNextPage" => emitted = <<Sig("pageChanged", <<bookPage + 1>>)>>

\* C15: entering a value v in the page field emits pageChanged(v) from the
\* window, towards the backend, when v differs from the book view's current page,
\* and nothing when it equals it.
C15_PageEntryEmitsOutward ==
    [][lastOp' = "onPageSpinBoxChanged" =>
          emitted' = IF lastArg'[1] # bookPage
                     THEN <<Sig("pageChanged", <<lastArg'[1]>>)>>
                     ELSE <<>>]_vars

\* C16: a programmatic set of the content (set_current_content, which sets both
\* editors) emits no contentChanged from either editor, while each user edit
\* emits exactly one.
C16_ProgrammaticSetIsSilent ==
    /\ lastOp = "qt_set_current_content" => childEmitted = <<>>
    /\ lastOp \in {"bookEdit", "noteEdit"} =>
           Len(childEmitted) = 1 /\ childEmitted[1].sig = "contentChanged"

\* C17: after every user edit in the book view, the window's word count and the
\* one the book view shows both equal the number of maximal runs of characters
\* that are not whitespace in the book text; empty and blank text give 0.
RunStarts(s) == {i \in 1..Len(s) : s[i] # " " /\ (i = 1 \/ s[i - 1] = " ")}
C17_WordCountIsRunCount ==
    lastOp = "bookEdit" =>
        /\ wordCount = Cardinality(RunStarts(bookContent))
        /\ bookWordCount = Cardinality(RunStarts(bookContent))
        /\ (\A i \in 1..Len(bookContent) : bookContent[i] = " ") => wordCount = 0
C17_Witness ==
    /\ lastOp = "bookEdit"
    /\ bookContent = <<"a", " ", "a">>
    /\ wordCount = 2
    /\ bookWordCount = 2

\* C18: for every text T and every view shown, after set_current_content(T) the
\* book editor and the note editor both return exactly T, and the window's
\* getCurrentContent returns T when an editor is shown and the empty text when
\* the list is shown.
C18_ContentRoundTrip ==
    lastOp = "qt_set_current_content" =>
        /\ bookContent = lastArg
        /\ noteContent = lastArg
        /\ MainWindow_getCurrentContent = IF activeView = "List" THEN <<>> ELSE lastArg

\* C19: on the list view, the delete action emits exactly one
\* deleteEntryClicked(i) for the selected row i when the user confirms, and
\* nothing when the user declines or no row is selected; in every case the
\* entries shown stay as they are.
C19_DeleteNeedsConfirmation ==
    [][lastOp' = "onDeleteEntry" =>
          /\ activeView = "List"
          /\ emitted' = IF currentRow' >= 0 /\ lastArg' = <<"Yes">>
                        THEN <<Sig("deleteEntryClicked", <<currentRow'>>)>>
                        ELSE <<>>
          /\ UNCHANGED <<entryList, rows>>]_vars
C19_Witness ==
    /\ lastOp = "onDeleteEntry"
    /\ lastArg = <<"Yes">>
    /\ entryList = <<"e1", "e2">>
    /\ currentRow = 1
    /\ emitted = <<Sig("deleteEntryClicked", <<1>>)>>

\* C20: every change of the search text to a value t emits exactly one
\* searchEntries(t) with t as typed, untrimmed, and leaves the entries shown as
\* they are.
C20_SearchRelaysRawText ==
    [][lastOp' = "onSearchTextChanged" =>
          /\ searchText' # searchText
          /\ emitted' = <<Sig("searchEntries", <<searchText'>>)>>
          /\ UNCHANGED <<entryList, rows>>]_vars
C20_Witness ==
    /\ lastOp = "onSearchTextChanged"
    /\ searchText = <<" ">>
    /\ entryList = <<"e1", "e2">>
    /\ emitted = <<Sig("searchEntries", <<(<<" ">>)>>)>>

\* C21: a click on Add Checkbox in the note view inserts the two characters of
\* the checkbox text at the cursor of the note text, leaves the book text as it
\* is, and emits exactly one addCheckbox that crosses the bridge, that is, for
\* which the bridge has an event a callback can be registered for.
C21_AddCheckboxCrossesBridge ==
    [][lastOp' = "onAddCheckboxClicked" =>
          /\ lastArg'[1] = lastArg'[2] =>
                 noteContent' = SubSeq(noteContent, 1, lastArg'[2]) \o <<"box", " ">>
                                \o SubSeq(noteContent, lastArg'[2] + 1, Len(noteContent))
          /\ bookContent' = bookContent
          /\ emitted' = <<Sig("addCheckbox", <<>>)>>
          /\ EventOf("addCheckbox") \in DOMAIN slots]_vars

\* C22: every click on New Page in the book view emits exactly one addNewPage,
\* whatever the current page and the total are, and changes no page field of the
\* window or of the book view.
C22_AddPageOnlyEmits ==
    [][lastOp' = "onAddPage" =>
          /\ emitted' = <<Sig("addNewPage", <<>>)>>
          /\ UNCHANGED pageVars]_vars
C22_Witness ==
    /\ lastOp = "onAddPage"
    /\ mwPage = 3
    /\ mwTotal = 2
    /\ bookTotal = 2
    /\ emitted = <<Sig("addNewPage", <<>>)>>

\* C23: a bridge setter or registration called with a null handle changes no
\* state of the window and no callback slot, and invokes nothing; qt_exec with a
\* null handle returns -1 and does not run the event loop; qt_cleanup with a null
\* handle does nothing.
C23_NullHandleIsNoOp ==
    [][bridgeRet'.nullHandle =>
          /\ UNCHANGED <<phase, gateVars, searchText, dlgVars, activeView, editorVars,
                         slots, listVars, pageVars>>
          /\ childEmitted' = <<>> /\ emitted' = <<>> /\ delivered' = <<>>
          /\ lastOp' = "qt_exec" => bridgeRet'.value = -1]_vars
C23_Witness ==
    /\ bridgeRet.nullHandle
    /\ lastOp = "qt_exec"
    /\ bridgeRet.value = -1
    /\ phase = "init_done"
    /\ entryList = <<"e1", "e2">>
    /\ slots["back_to_list"].cb = "cb1"

\* C24: an event whose callback was never registered, or was registered as null,
\* invokes nothing in the backend, and the handler's own effect still takes
\* place: Back still shows the list and emits its signal.
C24_UnregisteredEventDropped ==
    /\ \A i \in 1..Len(delivered) : delivered[i].cb # "null"
    /\ \A i \in 1..Len(emitted) :
           LET ev == EventOf(emitted[i].sig)
           IN  (ev \in DOMAIN slots /\ slots[ev].cb = "null") =>
                   \A j \in 1..Len(delivered) : delivered[j].event # ev
    /\ lastOp \in BackClicks =>
           activeView = "List" /\ emitted = <<Sig("backToList", <<>>)>>
C24_Witness ==
    /\ lastOp = "bookBackClicked"
    /\ slots["back_to_list"] = [cb |-> "null", ud |-> "ud1", conns |-> 1]
    /\ activeView = "List"
    /\ emitted = <<Sig("backToList", <<>>)>>
    /\ delivered = <<>>

\* C25: the visibility of the gate's error changes only by
\* qt_show_password_error(b), to b # 0, or by a rejected blank submission, to
\* true; typing in the password field and a successful submission leave the
\* error text and its visibility as they are; qt_set_password_error changes the
\* text to its argument and never the visibility.
C25_ErrorChangesOnlyExplicitly ==
    [][/\ errVisible' # errVisible =>
              \/ lastOp' = "qt_show_password_error" /\ errVisible' = (lastArg'[1] # 0)
              \/ lastOp' \in GateSubmits /\ Stripped(pwText) = <<>> /\ errVisible'
       /\ lastOp' = "typePassword" => UNCHANGED <<errText, errVisible>>
       /\ (lastOp' \in GateSubmits /\ emitted' # <<>>) => UNCHANGED <<errText, errVisible>>
       /\ lastOp' = "qt_set_password_error" =>
              errText' = lastArg' /\ errVisible' = errVisible]_vars
C25_Witness ==
    /\ lastOp = "qt_show_password_error"
    /\ lastArg = <<0>>
    /\ ~errVisible
    /\ errText = Str_PasswordEmpty

\* C26: a click on New Entry in the list view emits newEntryClicked from the
\* window, the signal the new_entry_clicked callback is connected to.
C26_NewEntryEmitsOutward ==
    lastOp = "onNewEntry" => \E i \in 1..Len(emitted) : emitted[i].sig = "newEntryClicked"

\* C27: a change of the search box that clears it (the clear button, or deleting
\* the text) emits clearSearch from the window.
C27_ClearingEmitsClearSearch ==
    [][(lastOp' = "onSearchTextChanged" /\ searchText # <<>> /\ searchText' = <<>>) =>
          \E i \in 1..Len(emitted') : emitted'[i].sig = "clearSearch"]_vars

\* C28: a click on Insert Image in the editor shown emits exactly one insertImage
\* that crosses the bridge, that is, for which the bridge has an event a callback
\* can be registered for, and changes no text, word count, view or page field.
InsertImageClicks == {"bookInsertImage", "noteInsertImage"}
C28_InsertImageCrossesBridge ==
    [][lastOp' \in InsertImageClicks =>
          /\ emitted' = <<Sig("insertImage", <<>>)>>
          /\ UNCHANGED <<activeView, editorVars, pageVars>>
          /\ EventOf("insertImage") \in DOMAIN slots]_vars

\* C29: cancelling the mode selector, by its Cancel button or by Escape, closes
\* the dialog and emits nothing.
C29_CancelDismissesSilently ==
    lastOp \in {"dlgCancel", "dlgEscape"} => ~dlgOpen /\ emitted = <<>>

C31_PageCopiesAgree == mwPage = bookPage

\* C32: set_total_pages(n) leaves the book view's current page as it is and emits
\* no page-changed notification, from the editor or from the window, for every n
\* and every prior state; the total and the maximum of the page field become n.
C32_SetTotalKeepsPage ==
    [][lastOp' = "qt_set_total_pages" =>
          /\ bookPage' = bookPage
          /\ mwPage' = mwPage
          /\ childEmitted' = <<>>
          /\ emitted' = <<>>
          /\ bookTotal' = lastArg'[1] /\ spinMax' = lastArg'[1]]_vars

\* C33: for all 1 <= k <= n and every prior state, set_current_page(k) followed
\* by set_total_pages(n) leaves the book view (current page, value of the page
\* field, enablement of Previous and Next) as set_total_pages(n) followed by
\* set_current_page(k) does, and in both orders the page field shows k.
C33_PageAndTotalCommute ==
    \A n \in 1..MaxPages : \A k \in 1..n :
        LET pageFirst == BookEditor_setTotalPages(BookEditor_setCurrentPage(BookView, k), n)
            totalFirst == BookEditor_setCurrentPage(BookEditor_setTotalPages(BookView, n), k)
        IN  /\ pageFirst = totalFirst
            /\ pageFirst.value = k
            /\ totalFirst.value = k

\* C34: once the gate has closed it is never shown again, whatever
\* qt_set_password_error / qt_show_password_error calls and other events follow:
\* the setters leave the gate as it is and emit nothing, and a passwordSubmitted
\* is emitted only if none was emitted before, so at most once in a run.
ErrorSetters == {"qt_set_password_error", "qt_show_password_error"}
C34_GateClosesForGood ==
    [][/\ ~gateVisible => ~gateVisible'
       /\ lastOp' \in ErrorSetters => gateVisible' = gateVisible /\ emitted' = <<>>
       /\ (\E i \in 1..Len(emitted') : emitted'[i].sig = "passwordSubmitted") =>
              ~everSubmitted /\ Len(emitted') = 1]_vars
C34_Witness ==
    /\ lastOp = "qt_show_password_error"
    /\ lastArg = <<1>>
    /\ errVisible
    /\ ~gateVisible
    /\ everSubmitted
    /\ phase = "running"

\* C35: in every reachable state the window's word count equals the book view's,
\* and both hold what the most recent writer wrote: n after set_word_count(n),
\* the number of whitespace-separated tokens of the book text after a user edit
\* of the book or a set_current_content; no other step, an edit of the note in
\* particular, changes the word count.
WordCountWriters == {"qt_set_word_count", "bookEdit", "qt_set_current_content"}
C35_WordCountFollowsLastWriter ==
    [][/\ wordCount' = bookWordCount'
       /\ lastOp' = "qt_set_word_count" => wordCount' = lastArg'[1]
       /\ lastOp' \in {"bookEdit", "qt_set_current_content"} =>
              wordCount' = Cardinality(RunStarts(bookContent'))
       /\ lastOp' \notin WordCountWriters => wordCount' = wordCount]_vars
C35_Witness ==
    /\ lastOp = "noteEdit"
    /\ noteContent = <<"a">>
    /\ bookContent = <<>>
    /\ wordCount = 3
    /\ bookWordCount = 3

\* C36: every entrySelected(i) and deleteEntryClicked(i) that is emitted carries
\* an index with 0 <= i < length of the entry list most recently set; neither is
\* emitted while the entry list is empty.
IndexedSignals == {"entrySelected", "deleteEntryClicked"}
C36_IndicesWithinList ==
    \A k \in 1..Len(emitted) :
        emitted[k].sig \in IndexedSignals =>
            emitted[k].args[1] \in 0..(Len(entryList) - 1)

\* C37: a handler that emits an outward signal starts in the view that owns the
\* signal: pageChanged and addNewPage in the book view, addCheckbox in the note
\* view, saveContent, insertImage and backToList in the book or the note view,
\* entrySelected, deleteEntryClicked, searchEntries and modeSelected in the list
\* view.
BookSignals == {"pageChanged", "addNewPage"}
NoteSignals == {"addCheckbox"}
EditorSignals == {"saveContent", "insertImage", "backToList"}
ListSignals == {"entrySelected", "deleteEntryClicked", "searchEntries", "modeSelected"}
C37_EventsScopedToView ==
    [][\A k \in 1..Len(emitted') :
           /\ emitted'[k].sig \in BookSignals => activeView = "Book"
           /\ emitted'[k].sig \in NoteSignals => activeView = "Note"
           /\ emitted'[k].sig \in EditorSignals => activeView \in {"Book", "Note"}
           /\ emitted'[k].sig \in ListSignals => activeView = "List"]_vars
C37_Witness ==
    /\ lastOp = "noteBackClicked"
    /\ emitted = <<Sig("backToList", <<>>)>>
    /\ activeView = "List"
    /\ dlgEverAccepted
    /\ mwTotal = 2

\* C38: after a registration function has been called more than once for an
\* event, an occurrence of the event invokes the callback registered last exactly
\* once, with the user data registered last (here for back_to_list, whose
\* occurrence is a click on Back in an editor).
C38_ReRegistrationReplaces ==
    (/\ lastOp \in BackClicks
     /\ slots["back_to_list"].conns >= 2
     /\ slots["back_to_list"].cb # "null") =>
        delivered = <<Call("back_to_list", slots["back_to_list"].cb, <<>>,
                           slots["back_to_list"].ud)>>
====
